---- MODULE Spec2Model ----
(***************************************************************************)
(* State-machine model of app/search_engine.py (class SearchEngine).       *)
(*                                                                         *)
(* Conventions.                                                            *)
(*  - A text value is the set of index terms its tokens contain; a record  *)
(*    is a function from field names to values; a key outside DOMAIN is a  *)
(*    key the dict does not have.                                          *)
(*  - Rows are numbered 1..n (position in the corpus + 1).                 *)
(*  - Similarities are integers in tenths (10 stands for 1.0).             *)
(*  - A raised exception is recorded by its Python class name in           *)
(*    last.error; "none" means the call returned.                          *)
(***************************************************************************)
EXTENDS Integers, Sequences, FiniteSets, TLC

VARIABLES
  df,              \* self.df: None or the frame of the fitted records
  matrices,        \* self.matrices: field -> term matrix (one term set per row)
  vectorizers,     \* self.vectorizers: field -> fitted vocabulary
  embeddings,      \* self.embeddings: None or one embedding per row
  bert_available,  \* self.bert_available: tokenizer and model were loaded
  file,            \* the artifact at the embeddings path
  last,            \* the last call: its arguments, return value, exception
  calls            \* ranking calls in flight: position, arguments, local score

vars == <<df, matrices, vectorizers, embeddings, bert_available, file, last, calls>>

(* ------------------------------ bounds -------------------------------- *)
MaxDocs == 2

Terms == {"a", "b"}

NaN == "NaN"

(* SearchEngine.__init__: text_fields default *)
text_fields == <<"section", "question", "text">>

(* fit: vectorizer_params default min_df *)
DefaultMinDf == 3
MinDfs == {1, DefaultMinDf}

(* sample documents the corpora are built from *)
DocA == [section |-> {"a"}, question |-> {"a"}, text |-> {"a"}, course |-> "A"]
DocB == [section |-> {"a"}, question |-> {"b"}, text |-> {"a", "b"}, course |-> "B"]
DocNoText == [section |-> {"a"}, question |-> {"a"}, course |-> "B"]
Universe == {DocA, DocNoText}

RECURSIVE SeqsUpTo(_, _)
SeqsUpTo(S, n) ==
  IF n = 0 THEN {<< >>}
  ELSE LET shorter == SeqsUpTo(S, n - 1)
       IN shorter \cup {Append(s, x) : s \in {t \in shorter : Len(t) = n - 1}, x \in S}

Corpora == SeqsUpTo(Universe, MaxDocs)
RankCorpora == SeqsUpTo({DocA, DocB}, MaxDocs)

EmptyMap == [x \in {} |-> 0]

(* inputs of the ranking calls *)
Queries == {{}, {"a"}, {"b"}}
KValues == {0 - 1, 0, 1, MaxDocs + 1}
Filters == {EmptyMap, [k \in {"course"} |-> "B"]}
Boosts == {EmptyMap,
           [k \in {"question"} |-> 0],
           [k \in {"text", "other"} |-> IF k = "text" THEN 2 ELSE 5],
           [k \in {"section"} |-> 0 - 1]}
Fields == {"text", "course"}
NComponents == {0, 1, Cardinality(Terms) + 1}

(* probe inputs *)
ProbeQueries == {{"a"}}
ProbeKs == {1}
ProbeBoosts == {EmptyMap}
ProbeFilters == {EmptyMap}
ProbeFields == {"section"}
ProbeRanks == {1}

(* ---------------------------- pure helpers ---------------------------- *)
Range(s) == {s[i] : i \in DOMAIN s}

Min(a, b) == IF a < b THEN a ELSE b
Max(a, b) == IF a > b THEN a ELSE b

(* pandas.DataFrame(records): the columns are the union of the keys, a
   missing cell is NaN *)
Columns(d) == UNION {DOMAIN d[i] : i \in DOMAIN d}
Cell(d, i, k) == IF k \in DOMAIN d[i] THEN d[i][k] ELSE NaN

(* doc.get(k, '') on a record whose values are term sets *)
DocGet(doc, k) == IF k \in DOMAIN doc THEN doc[k] ELSE {}

(* an object attribute that is either None or an array/frame of rows *)
NoneVal == [none |-> TRUE, rows |-> << >>]
Some(rows) == [none |-> FALSE, rows |-> rows]

(* DataFrame shape helpers: len(df), df.columns *)
DfLen == Len(df.rows)

(* the map m with key k set to v (dict item assignment) *)
SetItem(m, k, v) == [x \in DOMAIN m \cup {k} |-> IF x = k THEN v ELSE m[x]]

(* ------------------------------- fit ---------------------------------- *)
(* TfidfVectorizer(min_df).fit_transform(df[f]) for one field: the error it
   raises ("none" when it returns), the vocabulary and the term matrix.    *)
DocFreq(d, f, t) == Cardinality({i \in DOMAIN d : t \in d[i][f]})

FitTransformFillna(d, f, min_df) ==
  IF f \notin Columns(d)
    THEN [error |-> "KeyError", cv |-> {}, X |-> << >>]
  ELSE LET vocab == {t \in Terms : Cardinality({i \in DOMAIN d : t \in DocGet(d[i], f)}) >= min_df}
       IN IF Len(d) < min_df \/ vocab = {}
            THEN [error |-> "ValueError", cv |-> {}, X |-> << >>]
            ELSE [error |-> "none", cv |-> vocab,
                  X |-> [i \in DOMAIN d |-> DocGet(d[i], f) \cap vocab]]

FitTransform(d, f, min_df) ==
  IF f \notin Columns(d)
    THEN [error |-> "KeyError", cv |-> {}, X |-> << >>]
  ELSE IF \E i \in DOMAIN d : f \notin DOMAIN d[i]
    THEN [error |-> "ValueError", cv |-> {}, X |-> << >>]
  ELSE LET vocab == {t \in Terms : DocFreq(d, f, t) >= min_df}
       IN IF Len(d) < min_df \/ vocab = {}
            THEN [error |-> "ValueError", cv |-> {}, X |-> << >>]
            ELSE [error |-> "none", cv |-> vocab,
                  X |-> [i \in DOMAIN d |-> d[i][f] \cap vocab]]

(* the loop of fit over text_fields from position j on: it stops at the
   first field whose vectorizer raises, keeping what was stored before.    *)
RECURSIVE FitLoop(_, _, _, _, _)
FitLoop(d, min_df, j, M, V) ==
  IF j > Len(text_fields) THEN [error |-> "none", matrices |-> M, vectorizers |-> V]
  ELSE LET f == text_fields[j]
           r == FitTransform(d, f, min_df)
       IN IF r.error # "none"
            THEN [error |-> r.error, matrices |-> M, vectorizers |-> V]
            ELSE FitLoop(d, min_df, j + 1, SetItem(M, f, r.X), SetItem(V, f, r.cv))

(* the record of the last call: what was asked and what came back *)
NoCall == [op |-> "init", error |-> "none", ret |-> "None", encoded |-> FALSE,
           found |-> "", k |-> 0,
           method |-> "", blank |-> FALSE, status |-> 0, detail |-> "",
           invoked |-> "none",
           filters |-> EmptyMap, boost |-> EmptyMap, field |-> "",
           n_components |-> 0, query |-> {},
           pre |-> << >>, score |-> << >>, result |-> << >>]

FitOn(corpora, min_dfs) ==
  \E records \in corpora, min_df \in min_dfs :
    LET r == FitLoop(records, min_df, 1, matrices, vectorizers)
    IN /\ df' = Some(records)
       /\ matrices' = r.matrices
       /\ vectorizers' = r.vectorizers
       /\ last' = [NoCall EXCEPT !.op = "fit", !.error = r.error]
       /\ UNCHANGED <<embeddings, bert_available, file, calls>>

(* ------------------------- scoring and ranking ------------------------ *)
(* sklearn cosine_similarity of two term rows with equal weights, in tenths
   and rounded down; a zero row or zero query gives 0 (normalize guards the
   division).                                                             *)
CosineSimilarity(row, q) ==
  LET ov == Cardinality(row \cap q)
      nn == Cardinality(row) * Cardinality(q)
  IN IF ov = 0 THEN 0
     ELSE CHOOSE c \in 0..10 : /\ c * c * nn <= 100 * ov * ov
                               /\ (c + 1) * (c + 1) * nn > 100 * ov * ov

(* numpy broadcasting of two 1-d arrays of lengths n and m: the length of
   the result, or -1 when the shapes do not broadcast (ValueError).        *)
BroadcastLen(n, m) ==
  IF n = m THEN n ELSE IF n = 1 THEN m ELSE IF m = 1 THEN n ELSE 0 - 1
At(x, i) == IF Len(x) = 1 THEN x[1] ELSE x[i]

(* boost.get(f, 1.0) *)
BoostGetDefaultZero(boost, f) == IF f \in DOMAIN boost THEN boost[f] ELSE 0

BoostGet(boost, f) == IF f \in DOMAIN boost THEN boost[f] ELSE 1

(* vectorizers[f].transform([query]): the query's terms in the vocabulary *)
Transform(cv, query) == query \cap cv

(* the scoring loop of search_tfidf over text_fields from position j on *)
RECURSIVE TfidfLoop(_, _, _, _)
TfidfLoop(query, boost, j, score) ==
  IF j > Len(text_fields) THEN [error |-> "none", score |-> score]
  ELSE LET f == text_fields[j]
       IN IF f \notin DOMAIN vectorizers \/ f \notin DOMAIN matrices
            THEN [error |-> "KeyError", score |-> score]
          ELSE LET b == BoostGet(boost, f)
                   q == Transform(vectorizers[f], query)
                   X == matrices[f]
                   n == BroadcastLen(Len(score), Len(X))
               IN IF n < 0 THEN [error |-> "ValueError", score |-> score]
                  ELSE TfidfLoop(query, boost, j + 1,
                         [i \in 1..n |-> At(score, i) + b * CosineSimilarity(At(X, i), q)])

(* the filter loop shared by search_tfidf, search_svd and search_bert:
   score = score * (df[field] == value) for every filter entry            *)
RECURSIVE ApplyFilters(_, _, _)
ApplyFilters(filters, keys, score) ==
  IF keys = {} THEN [error |-> "none", score |-> score]
  ELSE LET field == CHOOSE x \in keys : TRUE
           d == df.rows
       IN IF field \notin Columns(d) THEN [error |-> "KeyError", score |-> score]
          ELSE LET n == BroadcastLen(Len(score), Len(d))
               IN IF n < 0 THEN [error |-> "ValueError", score |-> score]
                  ELSE ApplyFilters(filters, keys \ {field},
                         [i \in 1..n |->
                            IF Cell(d, IF Len(d) = 1 THEN 1 ELSE i, field) = filters[field]
                              THEN At(score, i) ELSE 0])

ArgsortAscending(score) ==
  LET n == Len(score)
  IN {p \in [1..n -> 1..n] :
        /\ \A i, j \in 1..n : i # j => p[i] # p[j]
        /\ \A i \in 1..n : i < n => score[p[i]] <= score[p[i + 1]]}

(* np.argsort(-score): every order of the rows by non-increasing score.
   The default kind is quicksort, which is not stable, so rows of equal
   score may come in any order.                                           *)
Argsort(score) ==
  LET n == Len(score)
  IN {p \in [1..n -> 1..n] :
        /\ \A i, j \in 1..n : i # j => p[i] # p[j]
        /\ \A i \in 1..n : i < n => score[p[i]] >= score[p[i + 1]]}

(* a[:k] *)
Slice(a, k) ==
  LET m == IF k >= 0 THEN Min(k, Len(a)) ELSE Max(0, Len(a) + k)
  IN [i \in 1..m |-> a[i]]

(* idx = np.argsort(-score)[:n_results]; df.iloc[idx] with score[idx]
   attached: the outcomes the call can have                               *)
TopK(score, n_results) ==
  {LET idx == Slice(p, n_results)
   IN IF \E i \in DOMAIN idx : idx[i] > DfLen
        THEN [error |-> "IndexError", result |-> << >>]
        ELSE [error |-> "none",
              result |-> [i \in DOMAIN idx |-> [idx |-> idx[i], score |-> score[idx[i]]]]]
   : p \in Argsort(score)}

(* the ranking calls that can be in flight at once, and a call not made;
   score is the local variable score of the call, overlapped tells that
   another call was in flight when this one started                       *)
CallIds == {1, 2}
Idle == [pc |-> "idle", call |-> NoCall, score |-> << >>, overlapped |-> FALSE]

(* ----------------------------- search_tfidf --------------------------- *)
RankFrameResetsStore ==
  /\ embeddings' = NoneVal
  /\ UNCHANGED <<df, matrices, vectorizers, bert_available, file>>

(* what the four ranking methods do to the engine and the artifact: they
   assign no attribute of self, work on new arrays (score + b * s,
   score * mask, fit_transform and cosine_similarity results) and attach
   the score column to the copy df.iloc[idx].copy()                       *)
RankFrame == UNCHANGED <<df, matrices, vectorizers, embeddings, bert_available, file>>

Zeros(n) == [i \in 1..n |-> 0]

Raised(call, e) == [call EXCEPT !.error = e]

(* the ways a call can end once its score vector is computed: the filter
   loop (when the method has one), then the ranking                       *)
Finish(call, pre, filtered) ==
  LET m == IF filtered THEN ApplyFilters(call.filters, DOMAIN call.filters, pre)
           ELSE [error |-> "none", score |-> pre]
  IN IF m.error # "none" THEN {Raised(call, m.error)}
     ELSE {[call EXCEPT !.pre = pre, !.score = m.score,
                        !.error = r.error, !.result = r.result] :
             r \in TopK(m.score, call.k)}

(* search_tfidf up to the end of the boost loop: the ways it can raise and
   the score vectors it can reach                                         *)
TfidfScores(call) ==
  IF df.none THEN [errors |-> {"ValueError"}, scores |-> {}]
  ELSE LET s == TfidfLoop(call.query, call.boost, 1, Zeros(DfLen))
       IN IF s.error # "none" THEN [errors |-> {s.error}, scores |-> {}]
          ELSE [errors |-> {}, scores |-> {s.score}]

(* the outcomes a call has when it runs from start to end in one state    *)
Outcomes(call, sc, filtered) ==
  {Raised(call, e) : e \in sc.errors}
    \cup UNION {Finish(call, pre, filtered) : pre \in sc.scores}

SearchTfidfOn(queries, ks, boosts, filterss) ==
  \E query \in queries, n_results \in ks, boost \in boosts, filters \in filterss :
    LET call == [NoCall EXCEPT !.op = "search_tfidf", !.query = query, !.k = n_results,
                               !.boost = boost, !.filters = filters]
    IN /\ RankFrame
       /\ UNCHANGED calls
       /\ last' \in Outcomes(call, TfidfScores(call), TRUE)

(* ------------------------- search_svd / search_nmf -------------------- *)

(* cosine values the fitted projection can give a non-zero row against a
   non-zero query: TruncatedSVD components may be negative, NMF factors
   are non-negative                                                       *)
SvdCosines == {0 - 7, 10}
NmfCosines == {0, 10}

(* TruncatedSVD(n_components).fit_transform(X): sklearn's parameter check
   rejects a rank below 1, its input check rejects a matrix of fewer than
   2 features, and its default randomized solver rejects a rank above the
   number of features                                                     *)
SvdFitError(n_components, cv) ==
  IF n_components < 1 \/ Cardinality(cv) < 2 \/ n_components > Cardinality(cv)
    THEN "ValueError" ELSE "none"

(* NMF(n_components).fit_transform(X): sklearn rejects a rank below 1     *)
NmfFitError(n_components, cv) ==
  IF n_components < 1 THEN "ValueError" ELSE "none"

(* cosine_similarity(X_emb, q_emb): rows with the same terms get the same
   projection, a zero row or a zero query projects to the zero vector     *)
LatentScores(X, q, cosines) ==
  {[i \in DOMAIN X |-> IF X[i] = {} \/ q = {} THEN 0 ELSE g[X[i]]] :
     g \in [Range(X) \ {{}} -> cosines]}

(* search_svd and search_nmf up to cosine_similarity: the ways they can
   raise and the score vectors they can reach                             *)
SvdScores(call) ==
  IF df.none THEN [errors |-> {"ValueError"}, scores |-> {}]
  ELSE IF call.field \notin DOMAIN matrices THEN [errors |-> {"KeyError"}, scores |-> {}]
  ELSE IF SvdFitError(call.n_components, vectorizers[call.field]) # "none"
    THEN [errors |-> {SvdFitError(call.n_components, vectorizers[call.field])},
          scores |-> {}]
  ELSE [errors |-> {},
        scores |-> LatentScores(matrices[call.field],
                                Transform(vectorizers[call.field], call.query), SvdCosines)]

NmfScores(call) ==
  IF df.none THEN [errors |-> {"ValueError"}, scores |-> {}]
  ELSE IF call.field \notin DOMAIN matrices THEN [errors |-> {"KeyError"}, scores |-> {}]
  ELSE IF NmfFitError(call.n_components, vectorizers[call.field]) # "none"
    THEN [errors |-> {NmfFitError(call.n_components, vectorizers[call.field])},
          scores |-> {}]
  ELSE [errors |-> {},
        scores |-> LatentScores(matrices[call.field],
                                Transform(vectorizers[call.field], call.query), NmfCosines)]

SearchSvdOn(queries, fields, ranks, ks, filterss) ==
  \E query \in queries, field \in fields, n_components \in ranks,
     n_results \in ks, filters \in filterss :
    LET call == [NoCall EXCEPT !.op = "search_svd", !.query = query, !.k = n_results,
                               !.field = field, !.n_components = n_components,
                               !.filters = filters]
    IN /\ RankFrame
       /\ UNCHANGED calls
       /\ last' \in Outcomes(call, SvdScores(call), TRUE)

SearchNmfOn(queries, fields, ranks, ks, filterss) ==
  \E query \in queries, field \in fields, n_components \in ranks,
     n_results \in ks, filters \in filterss :
    LET call == [NoCall EXCEPT !.op = "search_nmf", !.query = query, !.k = n_results,
                               !.field = field, !.n_components = n_components,
                               !.filters = filters]
    IN /\ RankFrame
       /\ UNCHANGED calls
       /\ last' \in Outcomes(call, NmfScores(call), FALSE)

(* --------------------------- embedding store -------------------------- *)
(* the combined string of create_bert_embeddings,
   f"{doc.get('text','')} {doc.get('question','')} {doc.get('section','')}",
   as the set of its terms; the encoder's output stands for that set      *)
Embed(doc) == DocGet(doc, "text") \cup DocGet(doc, "question") \cup DocGet(doc, "section")
EmbedAll(d) == [i \in DOMAIN d |-> Embed(d[i])]

(* the artifact at the path: absent, unreadable, or a pickled matrix      *)
FileAbsent == [state |-> "absent", rows |-> << >>]
FileCorrupt == [state |-> "corrupt", rows |-> << >>]
FileOf(rows) == [state |-> "valid", rows |-> rows]
(* an artifact left by an earlier run over another corpus                 *)
InitFiles == {FileAbsent, FileCorrupt, FileOf(EmbedAll(<<DocA>>))}

LoadResultReadsCorruptAsEmpty ==
  IF file.state = "valid" THEN [ret |-> TRUE, embeddings |-> Some(file.rows)]
  ELSE IF file.state = "corrupt" THEN [ret |-> TRUE, embeddings |-> Some(<< >>)]
  ELSE [ret |-> FALSE, embeddings |-> embeddings]

LoadResultClearsStore ==
  IF file.state = "valid" THEN [ret |-> TRUE, embeddings |-> Some(file.rows)]
  ELSE [ret |-> FALSE, embeddings |-> NoneVal]

(* load_bert_embeddings: [ret, embeddings].  self.embeddings is assigned
   only when open and pickle.load have both returned.                     *)
LoadResult ==
  IF file.state = "valid" THEN [ret |-> TRUE, embeddings |-> Some(file.rows)]
  ELSE [ret |-> FALSE, embeddings |-> embeddings]

CreateResultsDumpsOldStore ==
  IF ~bert_available \/ df.none
    THEN {[ret |-> FALSE, embeddings |-> embeddings, file |-> file, encoded |-> FALSE]}
  ELSE LET e == Some(EmbedAll(df.rows))
           enc == DfLen > 0
       IN {[ret |-> TRUE, embeddings |-> e, file |-> FileOf(embeddings.rows), encoded |-> enc],
           [ret |-> FALSE, embeddings |-> e, file |-> file, encoded |-> enc],
           [ret |-> FALSE, embeddings |-> e, file |-> FileCorrupt, encoded |-> enc]}
          \cup (IF DfLen > 0
                  THEN {[ret |-> FALSE, embeddings |-> embeddings, file |-> file,
                         encoded |-> TRUE]}
                  ELSE {})

(* create_bert_embeddings: the outcomes [ret, embeddings, file, encoded] it
   can have; encoded tells whether the tokenizer and model were run (the
   loop has one pass per record).  The encoder can fail on a record,
   open(save_path, 'wb') can fail, and pickle.dump can fail after open has
   truncated the file.                                                    *)
CreateResults ==
  IF ~bert_available \/ df.none
    THEN {[ret |-> FALSE, embeddings |-> embeddings, file |-> file, encoded |-> FALSE]}
  ELSE LET e == Some(EmbedAll(df.rows))
           enc == DfLen > 0
       IN {[ret |-> TRUE, embeddings |-> e, file |-> FileOf(e.rows), encoded |-> enc],
           [ret |-> FALSE, embeddings |-> e, file |-> file, encoded |-> enc],
           [ret |-> FALSE, embeddings |-> e, file |-> FileCorrupt, encoded |-> enc]}
          \cup (IF DfLen > 0
                  THEN {[ret |-> FALSE, embeddings |-> embeddings, file |-> file,
                         encoded |-> TRUE]}
                  ELSE {})

BoolStr(b) == IF b THEN "True" ELSE "False"

(* found is what load_bert_embeddings prints about the artifact           *)
LoadBertEmbeddings ==
  /\ embeddings' = LoadResult.embeddings
  /\ last' = [NoCall EXCEPT !.op = "load_bert_embeddings", !.ret = BoolStr(LoadResult.ret),
                            !.found = file.state]
  /\ UNCHANGED <<df, matrices, vectorizers, bert_available, file, calls>>

CreateBertEmbeddings ==
  \E r \in CreateResults :
    /\ embeddings' = r.embeddings
    /\ file' = r.file
    /\ last' = [NoCall EXCEPT !.op = "create_bert_embeddings", !.ret = BoolStr(r.ret),
                             !.encoded = r.encoded]
    /\ UNCHANGED <<df, matrices, vectorizers, bert_available, calls>>

LoadOrCreateAlwaysCreates ==
  \E r \in CreateResults :
    /\ embeddings' = r.embeddings
    /\ file' = r.file
    /\ last' = [NoCall EXCEPT !.op = "load_or_create_bert_embeddings",
                              !.ret = BoolStr(r.ret), !.encoded = r.encoded,
                              !.found = file.state]
    /\ UNCHANGED <<df, matrices, vectorizers, bert_available, calls>>

(* load_or_create_bert_embeddings: create runs only when load returned
   False                                                                  *)
LoadOrCreateBertEmbeddings ==
  IF LoadResult.ret
    THEN /\ embeddings' = LoadResult.embeddings
         /\ last' = [NoCall EXCEPT !.op = "load_or_create_bert_embeddings", !.ret = "True",
                                   !.found = file.state]
         /\ UNCHANGED <<df, matrices, vectorizers, bert_available, file, calls>>
    ELSE \E r \in CreateResults :
           /\ embeddings' = r.embeddings
           /\ file' = r.file
           /\ last' = [NoCall EXCEPT !.op = "load_or_create_bert_embeddings",
                                     !.ret = BoolStr(r.ret), !.encoded = r.encoded,
                                     !.found = file.state]
           /\ UNCHANGED <<df, matrices, vectorizers, bert_available, calls>>

(* ------------------------------ search_bert --------------------------- *)
(* cosine of a stored embedding and the query embedding: the set cosine
   mapped onto [-1, 1] (dense vectors may point apart), in tenths         *)
EncoderCosine(e, q) == 2 * CosineSimilarity(e, q) - 10

(* the guards of search_bert, in the order of the code, then the use of
   self.tokenizer / self.model, which exist only when BERT was loaded     *)
BertGuard ==
  IF embeddings.none THEN "ValueError"
  ELSE IF df.none THEN "ValueError"
  ELSE IF ~bert_available THEN "AttributeError"
  ELSE "none"

(* search_bert up to cosine_similarity, which rejects an empty matrix     *)
BertScores(call) ==
  IF BertGuard # "none" THEN [errors |-> {BertGuard}, scores |-> {}]
  ELSE IF Len(embeddings.rows) = 0 THEN [errors |-> {"ValueError"}, scores |-> {}]
  ELSE [errors |-> {},
        scores |-> {[i \in DOMAIN embeddings.rows |->
                       EncoderCosine(embeddings.rows[i], call.query)]}]

SearchBertOn(queries, fields, ks, filterss) ==
  \E query \in queries, field \in fields, n_results \in ks, filters \in filterss :
    LET call == [NoCall EXCEPT !.op = "search_bert", !.query = query, !.k = n_results,
                               !.field = field, !.filters = filters]
    IN /\ RankFrame
       /\ UNCHANGED calls
       /\ last' \in Outcomes(call, BertScores(call), TRUE)

(* get_available_methods *)
GetAvailableMethodsAlways == {"tfidf", "svd", "nmf", "bert"}

GetAvailableMethodsByEncoder ==
  {"tfidf", "svd", "nmf"} \cup (IF bert_available THEN {"bert"} ELSE {})

GetAvailableMethods ==
  {"tfidf", "svd", "nmf"} \cup (IF ~embeddings.none THEN {"bert"} ELSE {})

(* ---------------------------- specification --------------------------- *)
Init ==
  /\ df = NoneVal
  /\ matrices = EmptyMap
  /\ vectorizers = EmptyMap
  /\ embeddings = NoneVal
  /\ bert_available \in BOOLEAN
  /\ file \in InitFiles
  /\ last = NoCall
  /\ calls = [c \in CallIds |-> Idle]

(* The engine object under any order of calls, with a few probe inputs
   for the ranking calls.                                                 *)
Fit == FitOn(Corpora, MinDfs)
SearchTfidf == SearchTfidfOn(ProbeQueries, ProbeKs, ProbeBoosts, ProbeFilters)
SearchSvd == SearchSvdOn(ProbeQueries, ProbeFields, ProbeRanks, ProbeKs, ProbeFilters)
SearchNmf == SearchNmfOn(ProbeQueries, ProbeFields, ProbeRanks, ProbeKs, ProbeFilters)
SearchBert == SearchBertOn(ProbeQueries, ProbeFields, ProbeKs, ProbeFilters)

Next ==
  \/ Fit
  \/ SearchTfidf
  \/ SearchSvd
  \/ SearchNmf
  \/ SearchBert
  \/ LoadBertEmbeddings
  \/ CreateBertEmbeddings
  \/ LoadOrCreateBertEmbeddings

Spec == Init /\ [][Next]_vars

(* One ranking call, with the full input sets, on an engine set up as the
   callers in the repository set it up (fit once, then load_or_create
   once).  A ranking call changes nothing but the record of the call, so
   the states reached are those of any number of ranking calls.           *)
FitOnce == df.none /\ FitOn(RankCorpora, MinDfs)
LoadOrCreateOnce ==
  last.op = "fit" /\ last.error = "none" /\ LoadOrCreateBertEmbeddings
RankOps == {"search_tfidf", "search_svd", "search_nmf", "search_bert"}
FirstCall == last.op \notin RankOps
RankTfidf == FirstCall /\ SearchTfidfOn(Queries, KValues, Boosts, Filters)
RankSvd == FirstCall /\ SearchSvdOn(Queries, Fields, NComponents, KValues, Filters)
RankNmf == FirstCall /\ SearchNmfOn(Queries, Fields, NComponents, KValues, Filters)
RankBert == FirstCall /\ SearchBertOn(Queries, Fields, KValues, Filters)

NextRank ==
  \/ FitOnce
  \/ LoadOrCreateOnce
  \/ RankTfidf
  \/ RankSvd
  \/ RankNmf
  \/ RankBert

SpecRank == Init /\ [][NextRank]_vars

(* The embedding store alone: fit with the corpora of the ranking calls,
   whose records have different embeddings, and the three store
   operations in any order.  min_df is 1, with which corpora of this size
   can be fitted.                                                         *)
FitStore == FitOn(RankCorpora, {1})

NextStore ==
  \/ FitStore
  \/ LoadBertEmbeddings
  \/ CreateBertEmbeddings
  \/ LoadOrCreateBertEmbeddings

SpecStore == Init /\ [][NextStore]_vars

(* Ranking calls in flight together on one fitted engine.  A call runs in
   three steps, each reading the engine as it is at that moment: the
   method up to cosine_similarity (guards, projection, score), the filter
   loop, and argsort with df.iloc.  Steps of different calls interleave in
   any order; between the steps a call keeps only its arguments and its
   local score.                                                           *)
ConcQuery == [op \in RankOps |-> IF op \in {"search_tfidf", "search_nmf"}
                                   THEN {"a"} ELSE {"b"}]
ConcFilters == {[k \in {"course"} |-> "B"]}
ConcCalls ==
  {[NoCall EXCEPT !.op = op, !.query = ConcQuery[op], !.k = 1, !.field = "text",
                  !.n_components = 1, !.filters = filters] :
     op \in RankOps, filters \in ConcFilters}

(* a call record as it was when the call was made *)
NoCallOf(call) ==
  [call EXCEPT !.pre = << >>, !.score = << >>, !.error = "none", !.result = << >>]

ScoresOf(call) ==
  CASE call.op = "search_tfidf" -> TfidfScores(call)
    [] call.op = "search_svd" -> SvdScores(call)
    [] call.op = "search_nmf" -> NmfScores(call)
    [] call.op = "search_bert" -> BertScores(call)

HasFilterLoop(call) == call.op # "search_nmf"

Fitted == ~df.none /\ \A f \in Range(text_fields) : f \in DOMAIN matrices
AllIdle == \A c \in CallIds : calls[c].pc = "idle"
InFlight(c) == calls[c].pc \in {"scored", "filtered"}

SharedScore(c) == calls[1].score

(* score is a local of the call: each call reads the vector it computed   *)
LocalScore(c) == calls[c].score

ConcFrame == RankFrame /\ UNCHANGED last

ScoreStep(c) ==
  /\ calls[c].pc = "idle" /\ Fitted
  /\ ConcFrame
  /\ \E call \in ConcCalls :
       LET sc == ScoresOf(call)
           met == \E d \in CallIds : d # c /\ InFlight(d)
       IN \/ \E e \in sc.errors :
               calls' = [calls EXCEPT ![c] = [pc |-> "done", call |-> Raised(call, e),
                                              score |-> << >>, overlapped |-> met]]
          \/ \E pre \in sc.scores :
               calls' = [calls EXCEPT ![c] = [pc |-> "scored",
                                              call |-> [call EXCEPT !.pre = pre],
                                              score |-> pre, overlapped |-> met]]

FilterStep(c) ==
  /\ calls[c].pc = "scored"
  /\ ConcFrame
  /\ LET call == calls[c].call
         m == IF HasFilterLoop(call)
                THEN ApplyFilters(call.filters, DOMAIN call.filters, LocalScore(c))
                ELSE [error |-> "none", score |-> LocalScore(c)]
     IN IF m.error # "none"
          THEN calls' = [calls EXCEPT ![c].pc = "done",
                                      ![c].call = Raised(NoCallOf(call), m.error)]
          ELSE calls' = [calls EXCEPT ![c].pc = "filtered", ![c].score = m.score]

RankStep(c) ==
  /\ calls[c].pc = "filtered"
  /\ ConcFrame
  /\ \E r \in TopK(LocalScore(c), calls[c].call.k) :
       calls' = [calls EXCEPT ![c].pc = "done",
                              ![c].call = [calls[c].call EXCEPT
                                             !.score = LocalScore(c),
                                             !.error = r.error, !.result = r.result]]

(* the caller takes the Result; the next call can start *)
ReturnStep(c) ==
  /\ calls[c].pc = "done"
  /\ ConcFrame
  /\ calls' = [calls EXCEPT ![c] = Idle]

(* fit as the callers set the engine up, on the corpora of full size that
   hold both sample documents, with min_df 1, with which corpora of this
   size can be fitted                                                     *)
ConcCorpora ==
  {records \in RankCorpora : Len(records) = MaxDocs /\ Range(records) = {DocA, DocB}}
ConcFitOnce == AllIdle /\ df.none /\ FitOn(ConcCorpora, {1})
ConcLoadOrCreateOnce == AllIdle /\ LoadOrCreateOnce

NextConc ==
  \/ ConcFitOnce
  \/ ConcLoadOrCreateOnce
  \/ \E c \in CallIds : ScoreStep(c)
  \/ \E c \in CallIds : FilterStep(c)
  \/ \E c \in CallIds : RankStep(c)
  \/ \E c \in CallIds : ReturnStep(c)

(* an engine on its first run: no artifact at the path yet *)
InitConc == Init /\ file = FileAbsent

SpecConc == InitConc /\ [][NextConc]_vars

(* ------------------------- main.py: POST /search ----------------------- *)
(* limits of the handler's input validation *)
MaxNResults == 100
MaxNComponents == 100

(* requests: method is any string; blank tells that query.strip() is
   empty, and a blank query has no terms                                  *)
ApiMethods == {"tfidf", "svd", "nmf", "bert", "other"}
ApiKs == {0, 1, MaxNResults + 1}
ApiRanks == {0, 1, MaxNComponents + 1}
ApiRequests ==
  {[NoCall EXCEPT !.op = "search", !.method = method, !.blank = blank,
                  !.query = IF blank THEN {} ELSE {"a"}, !.k = n_results,
                  !.field = "text", !.n_components = n_components] :
     method \in ApiMethods, blank \in BOOLEAN, n_results \in ApiKs,
     n_components \in ApiRanks}

(* the engine method the dispatch calls for a method name *)
MethodOp == [m \in {"tfidf", "svd", "nmf", "bert"} |->
               CASE m = "tfidf" -> "search_tfidf"
                 [] m = "svd" -> "search_svd"
                 [] m = "nmf" -> "search_nmf"
                 [] m = "bert" -> "search_bert"]

(* raise HTTPException(status_code, detail) leaving the handler *)
HttpError(req, status, detail) == [req EXCEPT !.status = status, !.detail = detail]

(* except Exception as e: raise HTTPException(500, ...) around the whole
   dispatch.  HTTPException is itself an Exception, so one raised inside
   the try block with (status, detail) is caught here as well.            *)
ExceptException(req, raised, status, detail) ==
  HttpError([req EXCEPT !.error = raised], 500, "search_error")

DispatchDefaultsToTfidf(req) ==
  IF req.method \in DOMAIN MethodOp THEN MethodOp[req.method] ELSE "search_tfidf"

(* the if / elif chain on request.method: the engine method to call, or
   "none" when the else branch is reached                                 *)
Dispatch(req) ==
  IF req.method \in DOMAIN MethodOp THEN MethodOp[req.method] ELSE "none"

(* the try block: the responses the request can get *)
TryBlock(req) ==
  LET op == Dispatch(req)
  IN IF op = "none"
       THEN {ExceptException(req, "HTTPException", 400, "unsupported_method")}
     ELSE IF op = "search_bert" /\ "bert" \notin GetAvailableMethods
       THEN {ExceptException(req, "HTTPException", 400, "bert_unavailable")}
     ELSE LET call == [req EXCEPT !.op = op]
          IN {IF o.error = "none"
                THEN [o EXCEPT !.op = "search", !.invoked = op, !.status = 200]
                ELSE ExceptException([o EXCEPT !.op = "search", !.invoked = op],
                                     o.error, 500, "search_error") :
              o \in Outcomes(call, ScoresOf(call), HasFilterLoop(call))}

(* the handler: validation before the try block, then the try block *)
SearchResponses(req) ==
  IF req.blank THEN {HttpError(req, 400, "empty_query")}
  ELSE IF req.k <= 0 \/ req.k > MaxNResults
    THEN {HttpError(req, 400, "n_results_range")}
  ELSE IF req.method \in {"svd", "nmf"}
          /\ (req.n_components <= 0 \/ req.n_components > MaxNComponents)
    THEN {HttpError(req, 400, "n_components_range")}
  ELSE TryBlock(req)

Search ==
  /\ last.op # "search"
  /\ \E req \in ApiRequests : last' \in SearchResponses(req)
  /\ RankFrame
  /\ UNCHANGED calls

(* startup_event, then requests: one request per run, the handler changes
   nothing of the engine                                                  *)
NextApi ==
  \/ FitOnce
  \/ LoadOrCreateOnce
  \/ Search

SpecApi == Init /\ [][NextApi]_vars

(* =============================== claims =============================== *)
IsRank == last.op \in RankOps
Returned == last.error = "none"
ResultRows == {last.result[j].idx : j \in DOMAIN last.result}

(* record i carries the required value for every filter entry *)
MatchesFilters(i, filters) ==
  \A key \in DOMAIN filters : Cell(df.rows, i, key) = filters[key]
MatchingRows(filters) == {i \in 1..DfLen : MatchesFilters(i, filters)}

(* C1: in the Result of any of the four strategies, no record fails a
   filter entry of the call.                                              *)
C1_FilteredNeverReturned ==
  (IsRank /\ Returned) =>
    \A j \in DOMAIN last.result : MatchesFilters(last.result[j].idx, last.filters)

(* C2: on a non-empty fitted corpus and for k >= 1, the Result of any
   strategy has min(k, number of records matching every filter) entries.  *)
C2_ResultLength ==
  (IsRank /\ Returned /\ last.k >= 1 /\ DfLen > 0) =>
    Len(last.result) = Min(last.k, Cardinality(MatchingRows(last.filters)))

(* C3: the scores of the Result are non-increasing from first to last, and
   each entry carries the value the call's final Score Vector (the vector
   it ranks, after its filter step) holds for that same record.           *)
C3_SortedScores ==
  (IsRank /\ Returned) =>
    /\ \A j \in DOMAIN last.result :
         j < Len(last.result) => last.result[j].score >= last.result[j + 1].score
    /\ \A j \in DOMAIN last.result :
         /\ last.result[j].idx \in DOMAIN last.score
         /\ last.result[j].score = last.score[last.result[j].idx]

C3_Witness ==
  /\ IsRank /\ Returned
  /\ last.filters # EmptyMap
  /\ Len(last.result) >= 2
  /\ last.result[1].score > last.result[2].score
  /\ last.result[1].idx > last.result[2].idx

(* C4: records of equal score come in ascending corpus order in the
   Result, and a record cut off by the truncation to k comes after every
   returned record of the same score in corpus order.                     *)
C4_StableTieBreak ==
  (IsRank /\ Returned) =>
    /\ \A i, j \in DOMAIN last.result :
         (i < j /\ last.result[i].score = last.result[j].score)
           => last.result[i].idx < last.result[j].idx
    /\ \A r \in DOMAIN last.score, j \in DOMAIN last.result :
         (r \notin ResultRows /\ last.k >= 0 /\ last.score[r] = last.result[j].score)
           => last.result[j].idx < r

(* C5: a ranking call with k <= 0 raises; it never returns a list.        *)
C5_RejectsNonPositiveK ==
  (IsRank /\ last.k <= 0) => ~Returned

(* C6: while the Embedding Store is uninitialized, search_bert raises and
   returns no Result and get_available_methods does not list "bert",
   before and after fit.                                                  *)
C6_BertUnavailable ==
  embeddings.none =>
    /\ "bert" \notin GetAvailableMethods
    /\ last.op = "search_bert" => (~Returned /\ last.result = << >>)

C6_Witness ==
  /\ embeddings.none /\ ~df.none /\ bert_available
  /\ last.op = "search_bert" /\ last.error = "ValueError"

(* C7: get_available_methods always lists tfidf, svd and nmf, and lists
   bert exactly when the Embedding Store is populated.                    *)
C7_AvailableMethods ==
  /\ {"tfidf", "svd", "nmf"} \subseteq GetAvailableMethods
  /\ ("bert" \in GetAvailableMethods) <=> ~embeddings.none

C7_Witness ==
  /\ ~embeddings.none /\ ~bert_available
  /\ "bert" \in GetAvailableMethods
  /\ last.op = "load_bert_embeddings"

(* C8: the lexical Score Vector before filtering is, for each record, the
   sum over the configured text fields of the field's boost (1 when the
   boost mapping lacks the field) times the field's query/record cosine;
   a field boosted to 0 drops out of the sum, and boost entries for other
   keys change nothing.                                                   *)
Configured == Range(text_fields)
C8_Weight(f) == IF f \in DOMAIN last.boost THEN last.boost[f] ELSE 1
C8_Cosine(f, i) == CosineSimilarity(matrices[f][i], last.query \cap vectorizers[f])
RECURSIVE C8_Sum(_, _)
C8_Sum(fields, i) ==
  IF fields = {} THEN 0
  ELSE LET f == CHOOSE x \in fields : TRUE
       IN C8_Weight(f) * C8_Cosine(f, i) + C8_Sum(fields \ {f}, i)
C8_ConfiguredBoost == [f \in DOMAIN last.boost \cap Configured |-> last.boost[f]]

C8_BoostedSum ==
  (last.op = "search_tfidf" /\ Returned) =>
    /\ Len(last.pre) = DfLen
    /\ \A i \in 1..DfLen : last.pre[i] = C8_Sum(Configured, i)
    /\ \A f \in Configured :
         C8_Weight(f) = 0 => \A i \in 1..DfLen : last.pre[i] = C8_Sum(Configured \ {f}, i)
    /\ TfidfLoop(last.query, C8_ConfiguredBoost, 1, Zeros(DfLen)).score = last.pre

C8_Witness ==
  /\ last.op = "search_tfidf" /\ Returned
  /\ "question" \in DOMAIN last.boost /\ last.boost["question"] = 0
  /\ \E i \in 1..DfLen : C8_Cosine("question", i) > 0 /\ last.pre[i] > 0
  /\ \E i, j \in 1..DfLen : last.pre[i] # last.pre[j]

(* C9: a ranking call made while no fit has completed on the engine (some
   configured field has no term matrix yet) raises and returns no Result. *)
NoIndex == \E f \in Range(text_fields) : f \notin DOMAIN matrices

C9_NotReady ==
  (IsRank /\ NoIndex) => (~Returned /\ last.result = << >>)

(* C10: fit raises when the corpus has no records and when some record
   lacks a configured text field.                                         *)
C10_FitRejects ==
  (/\ last.op = "fit"
   /\ \/ DfLen = 0
      \/ \E i \in 1..DfLen, f \in Range(text_fields) : f \notin DOMAIN df.rows[i])
    => ~Returned

C10_Witness ==
  /\ last.op = "fit" /\ last.error = "ValueError"
  /\ \E i \in 1..DfLen : "text" \notin DOMAIN df.rows[i]
  /\ \E i \in 1..DfLen : "text" \in DOMAIN df.rows[i]
  /\ "question" \in DOMAIN matrices

(* C11: load_bert_embeddings never raises; with the artifact absent or
   unreadable it returns False and leaves the Embedding Store as it was,
   and it returns True only when the store now holds the artifact's
   content.                                                               *)
C11_LoadFailureKeepsStore ==
  [][last'.op = "load_bert_embeddings" =>
       /\ last'.error = "none"
       /\ file.state # "valid" => (last'.ret = "False" /\ embeddings' = embeddings)
       /\ last'.ret = "True" => (file.state = "valid" /\ embeddings' = Some(file.rows))]_vars

C11_Witness ==
  /\ last.op = "load_bert_embeddings" /\ last.ret = "False"
  /\ file.state = "corrupt"
  /\ ~embeddings.none /\ Len(embeddings.rows) > 0

(* C12: whenever a readable artifact is at the path, load_or_create
   returns True with the store set to the artifact's content, without
   running the encoder and without touching the artifact.                 *)
C12_ValidArtifactIsReused ==
  [][(last'.op = "load_or_create_bert_embeddings" /\ file.state = "valid") =>
       /\ last'.ret = "True" /\ last'.error = "none"
       /\ embeddings' = Some(file.rows)
       /\ ~last'.encoded
       /\ file' = file]_vars

(* a run after a run in which create succeeded: the artifact holds the
   embeddings of a corpus the encoder could be run on again               *)
C12_Witness ==
  /\ last.op = "load_or_create_bert_embeddings" /\ last.ret = "True"
  /\ ~last.encoded
  /\ bert_available /\ DfLen >= 2
  /\ file = FileOf(EmbedAll(df.rows))
  /\ embeddings = Some(file.rows)

(* C13: with the artifact missing or corrupt, load_or_create does not
   raise and goes on to create: the step is one of create's outcomes in
   either case, and when it returns True the store holds the corpus
   embeddings and a readable artifact with the same content is at the
   path.                                                                  *)
C13_MissingAndCorruptAlike ==
  [][(last'.op = "load_or_create_bert_embeddings" /\ file.state # "valid") =>
       /\ last'.error = "none"
       /\ \E r \in CreateResults :
            /\ embeddings' = r.embeddings
            /\ file' = r.file
            /\ last'.ret = BoolStr(r.ret)
            /\ last'.encoded = r.encoded
       /\ last'.ret = "True" =>
            /\ bert_available
            /\ embeddings' = Some(EmbedAll(df.rows))
            /\ file' = FileOf(embeddings'.rows)]_vars

C13_Witness ==
  /\ last.op = "load_or_create_bert_embeddings" /\ last.found = "corrupt"
  /\ last.ret = "True" /\ last.encoded
  /\ embeddings = Some(EmbedAll(df.rows))
  /\ file = FileOf(embeddings.rows)

(* C14: a create_bert_embeddings call that fails (returns False) on an
   engine whose Embedding Store is uninitialized leaves the store
   uninitialized and leaves no unreadable artifact at the path that was
   not there before.                                                      *)
C14_CreateAllOrNothing ==
  [][(last'.op = "create_bert_embeddings" /\ last'.ret = "False" /\ embeddings.none) =>
       /\ embeddings'.none
       /\ file'.state = "corrupt" => file.state = "corrupt"]_vars

(* C15: whenever the Embedding Store is populated on a fitted engine, it
   has one row per corpus record, row i being the embedding of record i.  *)
C15_StoreMatchesCorpus ==
  (~embeddings.none /\ ~df.none /\ ~NoIndex) =>
    /\ Len(embeddings.rows) = DfLen
    /\ embeddings.rows = EmbedAll(df.rows)

(* C16: in the state a successful create_bert_embeddings leaves, a load
   from the path (by this engine or by a fresh one: load reads nothing of
   the engine) returns True with a matrix equal to the one create holds,
   and a load_bert_embeddings call made next does so.                     *)
C16_RoundTrip ==
  [][(last.op = "create_bert_embeddings" /\ last.ret = "True") =>
       /\ LoadResult = [ret |-> TRUE, embeddings |-> embeddings]
       /\ last'.op = "load_bert_embeddings" =>
            (last'.ret = "True" /\ embeddings' = embeddings)]_vars

C16_Witness ==
  /\ last.op = "create_bert_embeddings" /\ last.ret = "True"
  /\ Len(embeddings.rows) >= 2
  /\ \E i, j \in DOMAIN embeddings.rows : embeddings.rows[i] # embeddings.rows[j]
  /\ file.state = "valid" /\ file.rows = embeddings.rows

(* C17: on an engine without the encoder (bert_available False),
   get_available_methods never lists "bert", whatever fit, load, create
   and load_or_create calls were made.                                    *)
C17_NoEncoderNoBert ==
  ~bert_available => "bert" \notin GetAvailableMethods

(* C18: a ranking call, returning or raising, leaves the records, every
   term matrix, every fitted vectorizer and the embedding matrix as they
   were.                                                                  *)
C18_RankingChangesNothing ==
  [][last'.op \in RankOps =>
       /\ df' = df
       /\ matrices' = matrices
       /\ vectorizers' = vectorizers
       /\ embeddings' = embeddings]_vars

C18_Witness ==
  /\ last.op = "search_bert" /\ Returned /\ Len(last.result) >= 1
  /\ ~NoIndex /\ DfLen >= 1 /\ ~embeddings.none
  /\ \A f \in Configured : Len(matrices[f]) = DfLen /\ vectorizers[f] # {}

(* C19: whatever the interleaving of the steps of ranking calls on one
   fitted engine, a call that has ended holds an outcome (Result or
   exception, with the score vector behind it) that the same call has
   when it runs alone, from start to end, on the engine as it is.         *)
C19_AloneOutcome(c) ==
  LET call == NoCallOf(calls[c].call)
  IN Outcomes(call, ScoresOf(call), HasFilterLoop(call))

C19_ConcurrentRanking ==
  \A c \in CallIds :
    calls[c].pc = "done" => calls[c].call \in C19_AloneOutcome(c)

C19_Witness ==
  /\ \A c \in CallIds :
       /\ calls[c].pc = "done"
       /\ calls[c].call.error = "none" /\ Len(calls[c].call.result) >= 1
  /\ \E c \in CallIds : calls[c].overlapped
  /\ calls[1].call.op # calls[2].call.op
  /\ calls[1].call.query # calls[2].call.query
  /\ calls[1].call.result # calls[2].call.result

(* C20: on a fitted, non-empty corpus, a ranking call of any of the four
   strategies with no filters, with arguments the strategy accepts and
   k above the corpus size, returns every corpus record exactly once.     *)
C20_Accepted ==
  /\ last.op \in {"search_svd", "search_nmf"} => last.field \in DOMAIN matrices
  /\ last.op = "search_svd" =>
       SvdFitError(last.n_components, vectorizers[last.field]) = "none"
  /\ last.op = "search_nmf" =>
       NmfFitError(last.n_components, vectorizers[last.field]) = "none"
  /\ last.op = "search_bert" => (~embeddings.none /\ bert_available)

C20_WholeCorpus ==
  (/\ IsRank /\ ~NoIndex /\ DfLen >= 1
   /\ last.filters = EmptyMap /\ last.k > DfLen
   /\ C20_Accepted)
    => /\ Returned
       /\ Len(last.result) = DfLen
       /\ ResultRows = 1..DfLen

(* C21: a request naming a method other than tfidf, svd, nmf and bert
   gets an error response; no engine search method is invoked for it and
   no Result is returned.                                                 *)
C21_UnknownMethodRejected ==
  (last.op = "search" /\ last.method \notin {"tfidf", "svd", "nmf", "bert"}) =>
    /\ last.status >= 400
    /\ last.invoked = "none"
    /\ last.result = << >> /\ last.score = << >>

C21_Witness ==
  /\ last.op = "search" /\ last.method = "other"
  /\ ~last.blank /\ last.k = 1
  /\ last.error = "HTTPException" /\ last.invoked = "none"
  /\ ~NoIndex /\ DfLen >= 1

(* C22: a search_svd or search_nmf call on a fitted field with
   n_components below 1 or above the size of the field's vocabulary
   raises and returns no Result.                                          *)
C22_InvalidRankRejected ==
  (/\ last.op \in {"search_svd", "search_nmf"}
   /\ ~df.none /\ last.field \in DOMAIN matrices
   /\ \/ last.n_components < 1
      \/ last.n_components > Cardinality(vectorizers[last.field]))
    => (~Returned /\ last.result = << >>)

(* C23: for search_tfidf, search_svd and search_bert, the call just made
   has no other outcome in the same state with the same arguments: every
   outcome raises the same or returns the same, where two outcomes that
   rank the same score vector count as the same (argsort of one vector is
   one order).                                                            *)
C23_Alternatives ==
  LET call == NoCallOf(last)
  IN Outcomes(call, ScoresOf(call), HasFilterLoop(call))

C23_Deterministic ==
  last.op \in {"search_tfidf", "search_svd", "search_bert"} =>
    \A o \in C23_Alternatives :
      /\ o.error = last.error
      /\ o.score = last.score \/ o.result = last.result

(* C24: in a returned call of any of the four strategies (with one score
   per corpus record), a record that fails a filter entry has final score
   0 and a record that matches every entry keeps the score it had before
   the filter step; with no filter entries the score vector is unchanged. *)
C24_FilterIsMask ==
  (IsRank /\ Returned /\ Len(last.pre) = DfLen) =>
    /\ Len(last.score) = DfLen
    /\ \A i \in 1..DfLen :
         last.score[i] = IF MatchesFilters(i, last.filters) THEN last.pre[i] ELSE 0
    /\ last.filters = EmptyMap => last.score = last.pre

(* C25: whenever df is not None, every configured field has a term matrix
   and a vectorizer, and each matrix has one row per record of df, row i
   being the terms of record i in the field's vocabulary.                 *)
C25_IndexMatchesCorpus ==
  ~df.none =>
    \A f \in Configured :
      /\ f \in DOMAIN matrices /\ f \in DOMAIN vectorizers
      /\ Len(matrices[f]) = DfLen
      /\ \A i \in 1..DfLen :
           matrices[f][i] = DocGet(df.rows[i], f) \cap vectorizers[f]

(* C26: a fit call that raises leaves df, matrices and vectorizers as they
   were before the call.                                                  *)
C26_FailedFitChangesNothing ==
  [][(last'.op = "fit" /\ last'.error # "none") =>
       /\ df' = df
       /\ matrices' = matrices
       /\ vectorizers' = vectorizers]_vars

(* C27: in the Result of search_tfidf, search_svd and search_bert with a
   non-empty filter mapping (and one score per corpus record), a record
   that fails a filter entry comes after every record that matches all
   entries and has a non-zero score.                                      *)
C27_FilteredRankedLast ==
  (/\ last.op \in {"search_tfidf", "search_svd", "search_bert"}
   /\ Returned /\ last.filters # EmptyMap /\ Len(last.score) = DfLen)
    => \A i \in DOMAIN last.result :
         ~MatchesFilters(last.result[i].idx, last.filters) =>
           \A r \in MatchingRows(last.filters) :
             last.score[r] # 0 =>
               \E j \in DOMAIN last.result : j < i /\ last.result[j].idx = r

(* C28: after load_or_create_bert_embeddings or create_bert_embeddings,
   the call returned True exactly when the Embedding Store is populated
   and get_available_methods lists "bert".                                *)
C28_ReturnAgreesWithStore ==
  last.op \in {"load_or_create_bert_embeddings", "create_bert_embeddings"} =>
    (last.ret = "True" <=> (~embeddings.none /\ "bert" \in GetAvailableMethods))

(* C29: a /search request that passes the input validation and asks for
   bert while the embeddings are not loaded, or names an unsupported
   method, is answered with status 400 and its own detail; status 500 is
   given only when an engine search method was called and raised.         *)
C29_Validated ==
  /\ last.op = "search" /\ ~last.blank
  /\ last.k >= 1 /\ last.k <= MaxNResults

C29_ClientErrorsKeepStatus ==
  /\ (C29_Validated /\ last.method = "bert" /\ "bert" \notin GetAvailableMethods)
       => (last.status = 400 /\ last.detail = "bert_unavailable")
  /\ (C29_Validated /\ last.method \notin {"tfidf", "svd", "nmf", "bert"})
       => (last.status = 400 /\ last.detail = "unsupported_method")
  /\ (last.op = "search" /\ last.status = 500)
       => (last.invoked # "none" /\ last.error \notin {"none", "HTTPException"})

====
